---- MODULE Spec2Model ----
(***************************************************************************)
(* Client-side cache synchronisation of the Todos, Comments, Posts and     *)
(* Recipes pages.  Every page keeps one react-query cache entry (the       *)
(* "cached collection") that is filled by useQuery and patched by the      *)
(* onSuccess handlers of three useMutation hooks.                          *)
(*                                                                         *)
(* One behaviour follows one page (res); the four query keys are disjoint  *)
(* and no handler touches another page's key.  The form state of a page    *)
(* (newTodo, editTodo, recipeForm, editing) is not part of the state: no   *)
(* cache handler reads it, and a request it could produce for a Record no  *)
(* longer cached is also produced by a request that is still in flight     *)
(* when the Record leaves the cache.                                       *)
(***************************************************************************)
EXTENDS Integers, Sequences, FiniteSets, Bags, TLC

\* ---------------------------------------------------------------- bounds
MaxLen == 2         \* longest cached sequence explored
MaxInFlight == 2    \* mutations simultaneously awaiting their response

\* ---------------------------------------------------------------- data
Resources == {"todos", "comments", "posts", "recipes"}
\* Two ids: the one an operation addresses and another one.  The handlers only
\* test ids for equality.
Ids == {1, 2}
Vals == {"a", "b"}          \* the non-key fields of a Record, as one value
NoVal == "none"

Rec(i, v) == [id |-> i, val |-> v]
Records == {Rec(i, v) : i \in Ids, v \in Vals}
NoRec == Rec(0, NoVal)

\* A cache entry: undefined, or an array of Records.
Undefined == [present |-> FALSE, data |-> <<>>]
Defined(s) == [present |-> TRUE, data |-> s]

\* ---------------------------------------------------------------- arrays
\* Mutant: the map forgets its condition and replaces every element.
MapReplaceEvery(s, u) == [k \in 1..Len(s) |-> u]

\* Mutant: the map's condition is inverted.
MapReplaceInverted(s, u) == [k \in 1..Len(s) |-> IF s[k].id # u.id THEN u ELSE s[k]]

\* Mutant: findIndex and assignment, which replaces the first match only.
MapReplaceFirst(s, u) ==
    [k \in 1..Len(s) |->
        IF s[k].id = u.id /\ \A j \in 1..(k - 1) : s[j].id # u.id THEN u ELSE s[k]]

RECURSIVE MapReplace(_, _)
\* old.map(x => x.id === u.id ? u : x)
MapReplace(s, u) ==
    IF s = <<>> THEN <<>>
    ELSE <<IF Head(s).id = u.id THEN u ELSE Head(s)>> \o MapReplace(Tail(s), u)

\* Mutant: removal by splice(findIndex(...), 1), which takes the last element
\* when the id is not found.
FilterBySplice(s, i) ==
    IF s = <<>> THEN <<>>
    ELSE IF \E k \in 1..Len(s) : s[k].id = i
         THEN LET k == CHOOSE k \in 1..Len(s) : s[k].id = i /\ \A j \in 1..(k - 1) : s[j].id # i
              IN SubSeq(s, 1, k - 1) \o SubSeq(s, k + 1, Len(s))
         ELSE SubSeq(s, 1, Len(s) - 1)

RECURSIVE FilterOut(_, _)
\* old.filter(x => x.id !== id)
FilterOut(s, i) ==
    IF s = <<>> THEN <<>>
    ELSE (IF Head(s).id # i THEN <<Head(s)>> ELSE <<>>) \o FilterOut(Tail(s), i)

NoDupIds(s) == \A j, k \in 1..Len(s) : s[j].id = s[k].id => j = k

\* ---------------------------------------------------------------- updaters
\* The function handed to queryClient.setQueryData by each onSuccess handler.
\* Its result is an array, or undefined.
\* Mutant: the new Record replaces the cached sequence.
CreateUpdaterReset(r, old, data) == Defined(<<data>>)

\* Mutant: every page spreads the old array without a fallback for undefined.
CreateUpdaterNoFallback(r, old, data) ==
    IF ~old.present THEN Undefined
    ELSE IF r \in {"todos", "comments"} THEN Defined(<<data>> \o old.data)
    ELSE Defined(old.data \o <<data>>)

\* Mutant: every page prepends.
CreateUpdaterFront(r, old, data) ==
    Defined(<<data>> \o (IF old.present THEN old.data ELSE <<>>))

CreateUpdater(r, old, data) ==
    CASE r \in {"todos", "comments"} ->
            \* (old = []) => [data, ...old]
            Defined(<<data>> \o (IF old.present THEN old.data ELSE <<>>))
      [] r = "posts" ->
            \* (old) => [...(old || []), data]
            Defined((IF old.present THEN old.data ELSE <<>>) \o <<data>>)
      [] r = "recipes" ->
            \* (old) => old ? [...old, data] : [data]
            IF old.present THEN Defined(old.data \o <<data>>) ELSE Defined(<<data>>)

\* Mutant: the updated Record is moved to the front.
UpdateUpdaterMoveToFront(r, old, u) ==
    IF old.present THEN Defined(<<u>> \o FilterOut(old.data, u.id))
    ELSE IF r \in {"todos", "recipes"} THEN Defined(<<>>) ELSE Undefined

\* Mutant: an update whose id is not cached is added (upsert).
UpdateUpdaterUpsert(r, old, u) ==
    IF ~old.present THEN (IF r \in {"todos", "recipes"} THEN Defined(<<>>) ELSE Undefined)
    ELSE IF \E k \in 1..Len(old.data) : old.data[k].id = u.id
         THEN Defined([k \in 1..Len(old.data) |->
                         IF old.data[k].id = u.id THEN u ELSE old.data[k]])
         ELSE Defined(Append(old.data, u))

UpdateUpdater(r, old, u) ==
    CASE r = "todos" ->
            \* old?.map(...) || []
            IF old.present THEN Defined(MapReplace(old.data, u)) ELSE Defined(<<>>)
      [] r \in {"comments", "posts"} ->
            \* old?.map(...)
            IF old.present THEN Defined(MapReplace(old.data, u)) ELSE Undefined
      [] r = "recipes" ->
            \* old ? old.map(...) : []
            IF old.present THEN Defined(MapReplace(old.data, u)) ELSE Defined(<<>>)

\* Mutant: every page filters with optional chaining only.
DeleteUpdaterOptional(r, old, i) ==
    IF old.present THEN Defined(FilterOut(old.data, i)) ELSE Undefined

DeleteUpdater(r, old, i) ==
    CASE r \in {"todos", "comments", "posts"} ->
            \* old?.filter(...)
            IF old.present THEN Defined(FilterOut(old.data, i)) ELSE Undefined
      [] r = "recipes" ->
            \* old ? old.filter(...) : []
            IF old.present THEN Defined(FilterOut(old.data, i)) ELSE Defined(<<>>)

\* queryClient.setQueryData(key, updater): an updater result of undefined
\* leaves the entry as it is.
SetQueryData(old, new) == IF new.present THEN new ELSE old

\* ---------------------------------------------------------------- remote
\* The Record a mutationFn resolves to, given the request and the body the
\* server answered with.
UpdateResult(r, req, body) ==
    IF r \in {"todos", "comments"}
    THEN Rec(req.id, body.val)     \* { id, todo: res.data.todo, ... }
    ELSE body                      \* res.data

\* PUT /{resource}/{id} answers with the Record of that id.
UpdateBodies(req) == {Rec(req.id, v) : v \in Vals}
\* POST /{resource}/add answers with the created Record, under an id the
\* server assigns.
CreateBodies(req) == Records

RECURSIVE SeqsUpTo(_)
SeqsUpTo(n) ==
    IF n = 0 THEN {<<>>}
    ELSE SeqsUpTo(n - 1) \cup
         {Append(s, x) : s \in {t \in SeqsUpTo(n - 1) : Len(t) = n - 1}, x \in Records}
\* GET /{resource} answers with the collection: one Record per id.
FetchBodies == {s \in SeqsUpTo(MaxLen) : NoDupIds(s)}

\* ---------------------------------------------------------------- state
VARIABLES
    res,       \* the page this behaviour follows
    mounted,   \* the page component is rendered
    cache,     \* the query data under the page's key
    status,    \* query status: "pending", "success" or "error"
    fetching,  \* the queryFn is awaiting its response
    inflight,  \* bag of mutation requests awaiting their response
    last,      \* history: the step just taken
    prev       \* history: cache before the step just taken

vars == <<res, mounted, cache, status, fetching, inflight, last, prev>>

\* A mutation awaiting its response: its kind and the id it addresses (0 for a
\* create).  The fields it sends never reach the cache: every handler writes
\* what the server answered.
Req(k, i) == [kind |-> k, id |-> i]

\* History record of a step.  pdel is the id of the delete whose success was
\* the latest delivery before this step, nothing but the issuing of requests
\* having happened since (0: none).  When the step delivers an update's
\* success right after another update's success, pid and pupd are the id that
\* one addressed and the Record it returned, and pprev is the cache before it.
Event(k, i, rec) ==
    LET twice == k = "updateOk" /\ last.kind = "updateOk" IN
    [kind |-> k, id |-> i, rec |-> rec,
     pdel |-> IF last.kind = "deleteOk" THEN last.id
              ELSE IF last.kind = "issue" THEN last.pdel ELSE 0,
     pid |-> IF twice THEN last.id ELSE 0,
     pupd |-> IF twice THEN last.rec ELSE NoRec,
     pprev |-> IF twice THEN prev ELSE Undefined]

Init ==
    /\ res \in Resources
    /\ mounted = FALSE
    /\ cache = Undefined
    /\ status = "pending"
    /\ fetching = FALSE
    /\ inflight = EmptyBag
    /\ last = [kind |-> "init", id |-> 0, rec |-> NoRec, pdel |-> 0,
               pid |-> 0, pupd |-> NoRec, pprev |-> Undefined]
    /\ prev = Undefined

\* ---------------------------------------------------------------- query
\* The route renders the page: useQuery subscribes and (staleTime 0) fetches.
Mount ==
    /\ ~mounted
    /\ mounted' = TRUE
    /\ fetching' = TRUE
    /\ last' = Event("ui", 0, NoRec)
    /\ prev' = cache
    /\ UNCHANGED <<res, cache, status, inflight>>

\* Navigation away: component state is dropped, requests stay in flight.
Unmount ==
    /\ mounted
    /\ mounted' = FALSE
    /\ last' = Event("ui", 0, NoRec)
    /\ prev' = cache
    /\ UNCHANGED <<res, cache, status, fetching, inflight>>

\* An unobserved query is garbage-collected.
Collect ==
    /\ ~mounted /\ ~fetching /\ cache.present
    /\ cache' = Undefined
    /\ status' = "pending"
    /\ last' = Event("collect", 0, NoRec)
    /\ prev' = cache
    /\ UNCHANGED <<res, mounted, fetching, inflight>>

\* Refetch of a mounted query (window focus, reconnect).
Refetch ==
    /\ mounted /\ ~fetching
    /\ fetching' = TRUE
    /\ last' = Event("ui", 0, NoRec)
    /\ prev' = cache
    /\ UNCHANGED <<res, mounted, cache, status, inflight>>

\* Mutant: a failed fetch drops the data.
OnFetchErrorDrop(old) == Undefined

\* The query data after a failed fetch: what it was (the error is recorded in
\* the query status only).
OnFetchError(old) == old

FetchOk ==
    /\ fetching
    /\ \E body \in FetchBodies :
          cache' = Defined(body)
    /\ status' = "success"
    /\ fetching' = FALSE
    /\ last' = Event("fetchOk", 0, NoRec)
    /\ prev' = cache
    /\ UNCHANGED <<res, mounted, inflight>>

FetchErr ==
    /\ fetching
    /\ status' = "error"
    /\ fetching' = FALSE
    /\ cache' = OnFetchError(cache)
    /\ last' = Event("fetchErr", 0, NoRec)
    /\ prev' = cache
    /\ UNCHANGED <<res, mounted, inflight>>

\* ---------------------------------------------------------------- UI
Rendered == IF mounted /\ cache.present THEN {cache.data[k] : k \in 1..Len(cache.data)} ELSE {}
CanIssue == mounted /\ BagCardinality(inflight) < MaxInFlight

\* Mutant: a delete is applied optimistically when it is issued.
OnMutateOptimistic(old, q) ==
    IF q.kind = "delete" /\ old.present THEN Defined(FilterOut(old.data, q.id)) ELSE old

\* What calling mutate() writes to the cache before the response: nothing
\* (no useMutation is given an onMutate handler).
OnMutate(old, q) == old

\* Submit of the create form: createMutation.mutate(input).
IssueCreate ==
    /\ CanIssue
    /\ inflight' = inflight (+) SetToBag({Req("create", 0)})
    /\ cache' = OnMutate(cache, Req("create", 0))
    /\ last' = Event("issue", 0, NoRec)
    /\ prev' = cache
    /\ UNCHANGED <<res, mounted, status, fetching>>

\* updateMutation.mutate(record): submit of the edit form, which was loaded
\* from a rendered Record, or (todos) toggleTodoCompletion on a rendered Record.
IssueUpdate ==
    /\ CanIssue
    /\ \E rec \in Rendered :
          /\ inflight' = inflight (+) SetToBag({Req("update", rec.id)})
          /\ cache' = OnMutate(cache, Req("update", rec.id))
    /\ last' = Event("issue", 0, NoRec)
    /\ prev' = cache
    /\ UNCHANGED <<res, mounted, status, fetching>>

\* Click on Delete of a rendered Record: deleteMutation.mutate(id).
IssueDelete ==
    /\ CanIssue
    /\ \E rec \in Rendered :
          /\ inflight' = inflight (+) SetToBag({Req("delete", rec.id)})
          /\ cache' = OnMutate(cache, Req("delete", rec.id))
    /\ last' = Event("issue", 0, NoRec)
    /\ prev' = cache
    /\ UNCHANGED <<res, mounted, status, fetching>>

\* ---------------------------------------------------------------- mutations
Pending(k) == {q \in BagToSet(inflight) : q.kind = k}
Settle(q) == inflight (-) SetToBag({q})
Written(new) == SetQueryData(cache, new)
StatusAfter(new) == IF new.present THEN "success" ELSE status

\* createMutation.onSuccess(data)
CreateOk ==
    \E q \in Pending("create") : \E data \in CreateBodies(q) :
        LET new == CreateUpdater(res, cache, data) IN
        /\ Len(new.data) <= MaxLen
        /\ cache' = Written(new)
        /\ status' = StatusAfter(new)
        /\ inflight' = Settle(q)
        /\ last' = Event("createOk", data.id, data)
        /\ prev' = cache
        /\ UNCHANGED <<res, mounted, fetching>>

\* updateMutation.onSuccess(updated)
UpdateOk ==
    \E q \in Pending("update") : \E body \in UpdateBodies(q) :
        LET u == UpdateResult(res, q, body)
            new == UpdateUpdater(res, cache, u) IN
        /\ cache' = Written(new)
        /\ status' = StatusAfter(new)
        /\ inflight' = Settle(q)
        /\ last' = Event("updateOk", q.id, u)
        /\ prev' = cache
        /\ UNCHANGED <<res, mounted, fetching>>

\* deleteMutation.onSuccess(_, deletedId)
DeleteOk ==
    \E q \in Pending("delete") :
        LET new == DeleteUpdater(res, cache, q.id) IN
        /\ cache' = Written(new)
        /\ status' = StatusAfter(new)
        /\ inflight' = Settle(q)
        /\ last' = Event("deleteOk", q.id, NoRec)
        /\ prev' = cache
        /\ UNCHANGED <<res, mounted, fetching>>

\* Mutant: the failure handler empties the cached collection.
OnErrorClear(old) == Defined(<<>>)

\* What a mutation's failure handler writes to the cache: nothing
\* (onError only logs, or is not given).
OnErrorWrite(old) == old

\* The remote call of a mutation rejects.
MutationErr ==
    \E q \in BagToSet(inflight) :
        /\ cache' = OnErrorWrite(cache)
        /\ inflight' = Settle(q)
        /\ last' = Event(IF q.kind = "create" THEN "createErr"
                         ELSE IF q.kind = "update" THEN "updateErr" ELSE "deleteErr",
                         0, NoRec)
        /\ prev' = cache
        /\ UNCHANGED <<res, mounted, status, fetching>>

Next ==
    \/ Mount \/ Unmount \/ Collect \/ Refetch \/ FetchOk \/ FetchErr
    \/ IssueCreate \/ IssueUpdate \/ IssueDelete
    \/ CreateOk \/ UpdateOk \/ DeleteOk \/ MutationErr

Spec == Init /\ [][Next]_vars

\* ================================================================ claims
RemoveAt(s, k) == SubSeq(s, 1, k - 1) \o SubSeq(s, k + 1, Len(s))
Positions(s, i) == {k \in 1..Len(s) : s[k].id = i}

\* C1: after a successful create the cached collection holds exactly one
\* Record more than before (an absent collection holding none), and the
\* added Record carries the id the server returned.
C1_CreateAddsOne ==
    last.kind = "createOk" =>
        /\ cache.present
        /\ Len(cache.data) = Len(prev.data) + 1
        /\ \E k \in 1..Len(cache.data) :
              /\ cache.data[k].id = last.id
              /\ cache.data[k] = last.rec
              /\ RemoveAt(cache.data, k) = prev.data
C1_Witness ==
    /\ last.kind = "createOk"
    /\ prev.present /\ Len(prev.data) >= 1

\* C2: in every reachable state the cached collection holds at most one
\* Record per id.
C2_AtMostOnePerId == NoDupIds(cache.data)

\* C3: after a successful update whose id is cached, every entry with that id
\* equals the Record the update returned and every other entry is unchanged.
C3_UpdateReplaces ==
    (last.kind = "updateOk" /\ prev.present /\ Positions(prev.data, last.id) # {}) =>
        /\ cache.present
        /\ Len(cache.data) = Len(prev.data)
        /\ \A k \in 1..Len(prev.data) :
              cache.data[k] = IF prev.data[k].id = last.id THEN last.rec ELSE prev.data[k]
C3_Witness ==
    /\ last.kind = "updateOk"
    /\ prev.present /\ Len(prev.data) >= 2
    /\ Positions(prev.data, last.id) # {}
    /\ Positions(prev.data, last.id) # 1..Len(prev.data)
    /\ cache # prev

\* C4 as stated: after a successful update whose id is not cached the cached
\* collection is identical to what it was.
C4_IgnoredIdentical ==
    (last.kind = "updateOk" /\ Positions(prev.data, last.id) = {}) => cache = prev
\* C4 amended: after a successful update whose id is not cached, an existing
\* cached collection is identical to what it was; an absent one stays absent
\* on comments and posts and becomes the empty sequence on todos and recipes.
C4_IgnoredOrEmptied ==
    (last.kind = "updateOk" /\ Positions(prev.data, last.id) = {}) =>
        IF prev.present THEN cache = prev
        ELSE cache = IF res \in {"todos", "recipes"} THEN Defined(<<>>) ELSE Undefined
C4_Witness ==
    /\ last.kind = "updateOk"
    /\ prev.present /\ Len(prev.data) >= 1
    /\ Positions(prev.data, last.id) = {}

\* C5: after a successful delete the cached collection holds no Record with
\* that id, and it is one shorter if the id was cached and as long as before
\* otherwise.
C5_DeleteRemovesOne ==
    last.kind = "deleteOk" =>
        /\ Positions(cache.data, last.id) = {}
        /\ Len(cache.data) =
              Len(prev.data) - (IF Positions(prev.data, last.id) # {} THEN 1 ELSE 0)

\* C6: a delete that succeeds after a successful delete of the same id, with
\* no other response delivered in between, leaves the cached collection as
\* the first one left it.
C6_DeleteIdempotent ==
    (last.kind = "deleteOk" /\ last.pdel = last.id) => cache = prev
C6_Witness ==
    /\ last.kind = "deleteOk" /\ last.pdel = last.id
    /\ cache.present /\ Len(cache.data) >= 1

\* C7: a failed create, update or delete leaves the cached collection as it
\* was when the failure was delivered.
C7_FailureIsolation ==
    last.kind \in {"createErr", "updateErr", "deleteErr"} => cache = prev
C7_Witness ==
    /\ last.kind = "updateErr"
    /\ cache.present /\ Len(cache.data) >= 1

\* C8: a failed fetch puts the query in the error status and leaves the
\* cached collection as it was.
C8_FetchFailureKeepsCache ==
    last.kind = "fetchErr" => (status = "error" /\ cache = prev)
C8_Witness ==
    /\ last.kind = "fetchErr"
    /\ cache.present /\ Len(cache.data) >= 1

\* C9: issuing a mutation writes nothing to the cached collection; only the
\* delivery of a successful response (or the query itself) changes it.
C9_WriteOnlyOnSuccess ==
    /\ last.kind = "issue" => cache = prev
    /\ cache # prev =>
          last.kind \in {"createOk", "updateOk", "deleteOk", "fetchOk", "collect"}
C9_Witness ==
    /\ last.kind = "issue"
    /\ cache.present /\ Len(cache.data) >= 1
    /\ BagCardinality(inflight) = MaxInFlight

\* C10: a successful create on todos or comments puts the returned Record in
\* front of the cached sequence, on posts or recipes behind it; the Records
\* already cached keep their order.
C10_InsertionEnd ==
    last.kind = "createOk" =>
        cache.data = IF res \in {"todos", "comments"}
                     THEN <<last.rec>> \o prev.data
                     ELSE prev.data \o <<last.rec>>
C10_Witness ==
    /\ last.kind = "createOk"
    /\ res \in {"posts", "recipes"}
    /\ Len(prev.data) >= 1
    /\ prev.data[1] # last.rec

\* C11: when the successes of two updates addressing different ids are
\* delivered one after the other, both returned Records are in the cache
\* afterwards: every entry of the collection as it was before the two carries
\* the Record returned for its id, or is unchanged if neither addressed it.
\* The result does not depend on which of the two was delivered first.
C11_DisjointUpdatesBothApply ==
    (last.kind = "updateOk" /\ last.pid # 0 /\ last.pid # last.id) =>
        /\ cache.present = (last.pprev.present \/ res \in {"todos", "recipes"})
        /\ Len(cache.data) = Len(last.pprev.data)
        /\ \A k \in 1..Len(last.pprev.data) :
              cache.data[k] =
                 IF last.pprev.data[k].id = last.id THEN last.rec
                 ELSE IF last.pprev.data[k].id = last.pid THEN last.pupd
                 ELSE last.pprev.data[k]
C11_Witness ==
    /\ last.kind = "updateOk" /\ last.pid # 0 /\ last.pid # last.id
    /\ Positions(last.pprev.data, last.id) # {}
    /\ Positions(last.pprev.data, last.pid) # {}
    /\ \A k \in 1..Len(cache.data) : cache.data[k] # last.pprev.data[k]

\* C12: when the successes of two updates addressing the same id are
\* delivered one after the other, every cache entry with that id equals the
\* Record returned by the one delivered last, whatever the first returned.
C12_LastWriteWins ==
    (last.kind = "updateOk" /\ last.pid = last.id) =>
        /\ Len(cache.data) = Len(last.pprev.data)
        /\ \A k \in 1..Len(last.pprev.data) :
              cache.data[k] =
                 IF last.pprev.data[k].id = last.id THEN last.rec
                 ELSE last.pprev.data[k]
C12_Witness ==
    /\ last.kind = "updateOk" /\ last.pid = last.id
    /\ Positions(last.pprev.data, last.id) # {}
    /\ last.pupd # last.rec
    /\ \E k \in 1..Len(cache.data) : last.pprev.data[k] = last.rec

\* C13: a successful update leaves the sequence of ids of the cached
\* collection (its length and every position) as it was, and a successful
\* delete leaves the Records it does not remove in their previous order.
C13_Kept(x) == x.id # last.id
C13_OrderPreserved ==
    /\ last.kind = "updateOk" =>
          /\ Len(cache.data) = Len(prev.data)
          /\ \A k \in 1..Len(prev.data) : cache.data[k].id = prev.data[k].id
    /\ last.kind = "deleteOk" => cache.data = SelectSeq(prev.data, C13_Kept)
C13_Witness ==
    /\ last.kind = "updateOk"
    /\ Len(prev.data) >= 2
    /\ prev.data[1].id # last.id
    /\ prev.data[2].id = last.id
    /\ cache # prev

\* C14: a create that succeeds while the cached collection is absent makes
\* it the one-element sequence of the returned Record.
C14_CreateOnAbsent ==
    (last.kind = "createOk" /\ ~prev.present) => cache = Defined(<<last.rec>>)
C14_Witness ==
    /\ last.kind = "createOk" /\ ~prev.present
    /\ cache.present /\ Len(cache.data) = 1

\* C15: an update or delete that succeeds while the cached collection is
\* absent makes it the empty sequence on todos (update) and recipes (update
\* and delete) and leaves it absent otherwise; no Record appears.
C15_AbsentStaysEmpty ==
    (last.kind \in {"updateOk", "deleteOk"} /\ ~prev.present) =>
        cache = IF (res = "todos" /\ last.kind = "updateOk") \/ res = "recipes"
                THEN Defined(<<>>) ELSE Undefined
C15_Witness ==
    /\ last.kind = "deleteOk" /\ ~prev.present
    /\ res = "recipes"
    /\ cache.present
====
